---- MODULE Spec2Model ----
(***************************************************************************)
(* CowWriterV3 (fs_mgr/libsnapshot/libsnapshot_cow/writer_v3.cpp): the     *)
(* writer of the v3 copy-on-write snapshot file.  One writer session over  *)
(* one file: the in-memory header, the payload cursor, the resume-point    *)
(* list, and the file as the set of extents the positioned writes left.    *)
(***************************************************************************)
EXTENDS Integers, Sequences, FiniteSets, TLC

\* ------------------------------------------------------------------ bounds

\* options_.op_count_max of a session opened with room in its operation table
\* (sessions are opened with 0 or MaxOpCountMax).
MaxOpCountMax == 2
\* Largest number of blocks in one Emit* request.
MaxBlocks == 2
\* Largest num_ops handed to EmitSequenceData.
MaxSeq == 1
\* Number of Emit* / Finalize / reopen calls made on one file.
MaxCalls == 3
\* Number of those calls that meet an I/O failure.
MaxFaults == 1
\* options_.block_size of the sessions explored (bytes per block).
BlockSize == 4
\* Capacity of the resume-point table (kNumResumePoints of cow_format.h, whose
\* value the writer only reads through header_.resume_point_max).
kNumResumePoints == 2

\* --------------------------------------------------------- program constants

\* sizeof(CowHeaderV3)
SizeofCowHeaderV3 == 64
\* sizeof(CowOperationV3)
SizeofCowOperationV3 == 16
\* sizeof(ResumePoint)
SizeofResumePoint == 16
\* sizeof(data[0]), data a const uint32_t*
SizeofUint32 == 4

Max(a, b) == IF a >= b THEN a ELSE b

\* The io input of a call: the number of I/O calls (positioned writes, syncs)
\* that succeed before one fails; NoFail: none fails.
NoFail == 0 - 1
\* The failure hits one of the first four I/O calls of a call: EmitLabel makes
\* three, and a compressed EmitBlocks two per block.
IoChoices == {NoFail, 0, 1, 2, 3}

\* Block contents a caller hands in, told apart by how well they compress.
BlockKinds == {"zeros", "noise"}

\* ------------------------------------------------------------------ helpers

RECURSIVE SumSeq(_)
SumSeq(s) == IF s = <<>> THEN 0 ELSE Head(s) + SumSeq(Tail(s))

\* Two byte ranges [o1, o1+l1) and [o2, o2+l2) share a byte.
Overlap(o1, l1, o2, l2) == l1 > 0 /\ l2 > 0 /\ o1 < o2 + l2 /\ o2 < o1 + l1

\* ICompressor::Compress on one block: the length of the compressed form.
\* A block of zeros compresses to one byte, a block of noise to more than a block.
CompressedSize(kind, block_size) ==
    IF kind = "zeros" THEN 1 ELSE block_size + 1

\* ------------------------------------------------------------------- layout

\* cow_format.h, as the layout the header fields imply:
\* [header][resume-point table][sequence-data table][operation table][payload].
GetResumeOffset(header) == header.header_size

GetSequenceOffset(header) ==
    GetResumeOffset(header) + header.resume_point_max * SizeofResumePoint

GetOpOffset(op_index, header) ==
    GetSequenceOffset(header) + header.sequence_data_count * SizeofUint32
        + op_index * header.op_size

GetDataOffset(header) == GetOpOffset(header.op_count_max, header)

\* --------------------------------------------------------------------- file

\* The file is the set of extents [off, len, kind, val] that positioned writes
\* left in it.  A write replaces every extent it shares a byte with.
Extent(off, len, kind, val) == [off |-> off, len |-> len, kind |-> kind, val |-> val]

WriteExtent(f, off, len, kind, val) ==
    IF len = 0 THEN f
    ELSE {e \in f : ~Overlap(e.off, e.len, off, len)} \cup {Extent(off, len, kind, val)}

\* What a read of `kind` at `off` finds: the extents written there and intact.
ReadExtent(f, off, kind) == {e \in f : e.off = off /\ e.kind = kind}

\* One I/O call under the io input: it fails when the countdown is at 0.
IoFails(io) == io = 0
IoNext(io) == IF io > 0 THEN io - 1 ELSE io

\* android::base::WriteFullyAtOffset on the writer state s, a record of
\*   header, next_data_pos, resume_points   the session's members,
\*   file, writes                           the file and the log of writes made,
\*   io, nio                                the io input, the I/O calls that succeeded,
\*   ok, why                                the last result, and what failed,
\*   evicted                                the resume points erased from the front.
\* On success the bytes are in the file and the write is logged; a failed write
\* leaves the file as it was.
\* A write of no bytes makes no I/O call and succeeds.
WriteFullyAtOffset(s, off, len, kind, val) ==
    IF len = 0 THEN [s EXCEPT !.ok = TRUE]
    ELSE IF IoFails(s.io)
    THEN [s EXCEPT !.ok = FALSE, !.why = "io", !.io = NoFail]
    ELSE [s EXCEPT !.ok = TRUE,
                   !.io = IoNext(s.io),
                   !.nio = s.nio + 1,
                   !.file = WriteExtent(s.file, off, len, kind, val),
                   !.writes = s.writes \cup {<<kind, off, len>>}]

\* CowWriterBase::Sync
Sync(s) ==
    IF IoFails(s.io)
    THEN [s EXCEPT !.ok = FALSE, !.why = "io", !.io = NoFail]
    ELSE [s EXCEPT !.ok = TRUE, !.io = IoNext(s.io), !.nio = s.nio + 1]

\* ------------------------------------------------------------ write protocol

\* CowOperationV3: type, new_block, source (set_source) and data_length.
CowOperation(type, new_block, source, data_length) ==
    [type |-> type, new_block |-> new_block, source |-> source,
     data_length |-> data_length]

\* The records of one batch, written by one positioned write at `offset`:
\* record i lands at offset + i * sizeof(ops[0]).
RECURSIVE PutOps(_, _, _, _)
PutOps(f, ops, offset, size) ==
    IF ops = <<>> THEN f
    ELSE PutOps(WriteExtent(f, offset, size, "op", Head(ops)),
                Tail(ops), offset + size, size)

\* The log entries of those records: where each went, and the record.
OpWrites(ops, offset, size) ==
    {<<"op", offset + (i - 1) * size, size, ops[i]>> : i \in 1 .. Len(ops)}

WriteOpsAtOffset(s, ops, offset) ==
    IF Len(ops) = 0 THEN [s EXCEPT !.ok = TRUE]
    ELSE IF IoFails(s.io)
    THEN [s EXCEPT !.ok = FALSE, !.why = "io", !.io = NoFail]
    ELSE [s EXCEPT !.ok = TRUE,
                   !.io = IoNext(s.io),
                   !.nio = s.nio + 1,
                   !.file = PutOps(s.file, ops, offset, SizeofCowOperationV3),
                   !.writes = s.writes \cup OpWrites(ops, offset, SizeofCowOperationV3)]

\* WriteOperationEstimating without the shift of the payload cursor when the
\* operation table grows.
WriteOperationEstimating_NoShift(s, ops, size) ==
    LET op_count == s.header.op_count + Len(ops)
    IN [s EXCEPT !.ok = TRUE,
                 !.header.op_count = op_count,
                 !.header.op_count_max = Max(@, op_count),
                 !.next_data_pos = @ + size]

\* WriteOperation, estimating: only the counters move, and a batch that outgrows
\* the operation table grows it and shifts the payload cursor by the growth.
WriteOperationEstimating(s, ops, size) ==
    LET op_count == s.header.op_count + Len(ops)
        grown    == op_count > s.header.op_count_max
        shift    == IF grown
                    THEN (op_count - s.header.op_count_max) * SizeofCowOperationV3
                    ELSE 0
    IN [s EXCEPT !.ok = TRUE,
                 !.header.op_count = op_count,
                 !.header.op_count_max = IF grown THEN op_count ELSE @,
                 !.next_data_pos = @ + shift + size]

\* The capacity check letting one record too many through.
ExceedsOpCountMax_OffByOne(header, n) == header.op_count + n > header.op_count_max + 1

\* The capacity check of a real write.
ExceedsOpCountMax(header, n) == header.op_count + n > header.op_count_max

\* WriteOperation, real: the capacity check, the records at the table offset of
\* the committed count, the payload at the cursor, and only then the counters.
WriteOperationReal(s, ops, size) ==
    IF ExceedsOpCountMax(s.header, Len(ops))
    THEN [s EXCEPT !.ok = FALSE, !.why = "capacity"]
    ELSE LET offset == GetOpOffset(s.header.op_count, s.header)
             s1 == WriteOpsAtOffset(s, ops, offset)
         IN IF ~s1.ok THEN s1
            ELSE LET s2 == WriteFullyAtOffset(s1, s1.next_data_pos, size, "data", size)
                 IN IF ~s2.ok THEN s2
                    ELSE [s2 EXCEPT !.header.op_count = @ + Len(ops),
                                    !.next_data_pos = @ + size]

\* CowWriterV3::WriteOperation(ops, data); size is data.size().
WriteOperation(s, ops, size) ==
    IF s.estimating THEN WriteOperationEstimating(s, ops, size)
    ELSE WriteOperationReal(s, ops, size)

\* ------------------------------------------------------------------- emits

\* An EmitCopy whose records all carry the source of the first.
CopyOps_SameSource(new_block, old_block, num_blocks) ==
    [i \in 1 .. num_blocks |-> CowOperation("copy", new_block + (i - 1), old_block, 0)]

\* CowWriterV3::EmitCopy
CopyOps(new_block, old_block, num_blocks) ==
    [i \in 1 .. num_blocks |->
        CowOperation("copy", new_block + (i - 1), old_block + (i - 1), 0)]

EmitCopy(s, new_block, old_block, num_blocks) ==
    WriteOperation(s, CopyOps(new_block, old_block, num_blocks), 0)

\* CowWriterV3::EmitZeroBlocks
ZeroOps(new_block_start, num_blocks) ==
    [i \in 1 .. num_blocks |-> CowOperation("zero", new_block_start + (i - 1), 0, 0)]

EmitZeroBlocks(s, new_block_start, num_blocks) ==
    WriteOperation(s, ZeroOps(new_block_start, num_blocks), 0)

\* A source field that is the device offset whatever the record's type.
BlockSource_DeviceOffset(type, old_block, offset, i, block_size, data_pos) ==
    (old_block + i) * block_size + offset

\* The source field of block i (from 0) of an EmitBlocks request, given the
\* payload offset the block goes to.
BlockSource(type, old_block, offset, i, block_size, data_pos) ==
    IF type = "xor" THEN (old_block + i) * block_size + offset ELSE data_pos

\* EmitBlocks without compression: one batch of num_blocks records and the whole
\* buffer of `size` bytes as its payload.
EmitBlocksUncompressed(s, new_block_start, size, old_block, offset, type) ==
    LET block_size == s.header.block_size
        num_blocks == size \div block_size
        ops == [i \in 1 .. num_blocks |->
                  CowOperation(type, new_block_start + (i - 1),
                               BlockSource(type, old_block, offset, i - 1, block_size,
                                           s.next_data_pos + block_size * (i - 1)),
                               block_size)]
    IN WriteOperation(s, ops, size)

\* A payload length that is the compressed length whatever its size.
DataLength_AlwaysCompressed(kind, block_size) == CompressedSize(kind, block_size)

\* The payload length of one block on the compressed path: the compressed
\* length when it is smaller than a block, the block length otherwise.
DataLength(kind, block_size) ==
    IF CompressedSize(kind, block_size) < block_size
    THEN CompressedSize(kind, block_size)
    ELSE block_size

\* A rollback that forgets the committed operation count.
Rollback_DataPosOnly(s, saved_op_count, saved_data_pos) ==
    [s EXCEPT !.next_data_pos = saved_data_pos]

\* A rollback that forgets the payload cursor.
Rollback_OpCountOnly(s, saved_op_count, saved_data_pos) ==
    [s EXCEPT !.header.op_count = saved_op_count]

\* What EmitBlocks does to the counters when a block's WriteOperation fails.
Rollback(s, saved_op_count, saved_data_pos) ==
    [s EXCEPT !.header.op_count = saved_op_count, !.next_data_pos = saved_data_pos]

\* The loop of EmitBlocks with compression, from block i (from 0): one
\* WriteOperation per block, and on a failure the rollback to the saved counters.
RECURSIVE EmitBlocksLoop(_, _, _, _, _, _, _, _)
EmitBlocksLoop(s, i, data, new_block_start, old_block, offset, type, saved) ==
    IF i >= Len(data) THEN [s EXCEPT !.ok = TRUE]
    ELSE LET block_size == s.header.block_size
             len == DataLength(data[i + 1], block_size)
             op  == CowOperation(type, new_block_start + i,
                                 BlockSource(type, old_block, offset, i, block_size,
                                             s.next_data_pos),
                                 len)
             s1  == WriteOperation(s, <<op>>, len)
         IN IF ~s1.ok THEN Rollback(s1, saved.op_count, saved.data_pos)
            ELSE EmitBlocksLoop(s1, i + 1, data, new_block_start, old_block, offset,
                                type, saved)

\* CowWriterV3::EmitBlocks; data holds the whole blocks of the buffer and extra
\* the bytes after the last whole block (size = Len(data) * block_size + extra).
EmitBlocks(s, new_block_start, data, extra, old_block, offset, type) ==
    IF s.compression # "none" /\ ~s.compressor
    THEN [s EXCEPT !.ok = FALSE, !.why = "compressor"]
    ELSE IF s.compression = "none"
    THEN EmitBlocksUncompressed(s, new_block_start,
                                Len(data) * s.header.block_size + extra,
                                old_block, offset, type)
    ELSE EmitBlocksLoop(s, 0, data, new_block_start, old_block, offset, type,
                        [op_count |-> s.header.op_count, data_pos |-> s.next_data_pos])

\* CowWriterV3::EmitRawBlocks
EmitRawBlocks(s, new_block_start, data, extra) ==
    EmitBlocks(s, new_block_start, data, extra, 0, 0, "replace")

\* CowWriterV3::EmitXorBlocks
EmitXorBlocks(s, new_block_start, data, extra, old_block, offset) ==
    EmitBlocks(s, new_block_start, data, extra, old_block, offset, "xor")

\* ---------------------------------------------------------- labels, finalize

\* CowWriterV3::Finalize: the header image at offset 0, then the sync.
Finalize(s) ==
    LET s1 == WriteFullyAtOffset(s, 0, s.header.header_size, "header", s.header)
    IN IF ~s1.ok THEN s1 ELSE Sync(s1)

\* A remove_if that keeps the resume point of the label itself.
PruneLabels_Greater(resume_points, label) ==
    SelectSeq(resume_points, LAMBDA rp : ~(rp.label > label))

\* A remove_if that removes the labels below the new one.
PruneLabels_Below(resume_points, label) ==
    SelectSeq(resume_points, LAMBDA rp : ~(rp.label <= label))

\* The remove_if of EmitLabel: the resume points that stay.
PruneLabels(resume_points, label) ==
    SelectSeq(resume_points, LAMBDA rp : ~(rp.label >= label))

\* An eviction that erases the back of the list, the newest resume points.
EvictNewest(resume_points, max) ==
    IF Len(resume_points) > max THEN SubSeq(resume_points, 1, max) ELSE resume_points

\* The while loop of EmitLabel: erase the front while the list is over the maximum.
RECURSIVE EvictOldest(_, _)
EvictOldest(resume_points, max) ==
    IF Len(resume_points) > max THEN EvictOldest(Tail(resume_points), max)
    ELSE resume_points

\* An EmitLabel that records the capacity of the operation table with the
\* label, not the committed operation count.
EmitLabel_RecordsCapacity(s, label) ==
    LET pushed == Append(PruneLabels(s.resume_points, label),
                         [label |-> label, op_index |-> s.header.op_count_max])
        points == EvictOldest(pushed, s.header.resume_point_max)
        s1 == [s EXCEPT !.resume_points = points,
                        !.evicted = Len(pushed) - Len(points),
                        !.header.resume_point_count = @ + 1]
        s2 == WriteFullyAtOffset(s1, GetResumeOffset(s1.header),
                                 Len(points) * SizeofResumePoint, "resume", points)
    IN IF ~s2.ok THEN s2 ELSE Finalize(s2)

\* An EmitLabel that finalizes the header before it writes the table.
EmitLabel_FinalizeFirst(s, label) ==
    LET pushed == Append(PruneLabels(s.resume_points, label),
                         [label |-> label, op_index |-> s.header.op_count])
        points == EvictOldest(pushed, s.header.resume_point_max)
        s1 == [s EXCEPT !.resume_points = points,
                        !.evicted = Len(pushed) - Len(points),
                        !.header.resume_point_count = @ + 1]
        s2 == Finalize(s1)
    IN IF ~s2.ok THEN s2
       ELSE WriteFullyAtOffset(s2, GetResumeOffset(s2.header),
                               Len(points) * SizeofResumePoint, "resume", points)

\* CowWriterV3::EmitLabel
EmitLabel(s, label) ==
    LET pushed == Append(PruneLabels(s.resume_points, label),
                         [label |-> label, op_index |-> s.header.op_count])
        points == EvictOldest(pushed, s.header.resume_point_max)
        s1 == [s EXCEPT !.resume_points = points,
                        !.evicted = Len(pushed) - Len(points),
                        !.header.resume_point_count = @ + 1]
        s2 == WriteFullyAtOffset(s1, GetResumeOffset(s1.header),
                                 Len(points) * SizeofResumePoint, "resume", points)
    IN IF ~s2.ok THEN s2 ELSE Finalize(s2)

\* CowWriterV3::EmitSequenceData
EmitSequenceData(s, num_ops) ==
    LET s1 == [s EXCEPT !.header.sequence_data_count = num_ops]
    IN WriteFullyAtOffset(s1, GetSequenceOffset(s1.header), SizeofUint32 * num_ops,
                          "seq", num_ops)

\* CowWriterV3::GetCowSize
GetCowSize(s) == s.next_data_pos

\* ---------------------------------------------------------------- sessions

\* CowWriterV3::SetupHeaders, then the fields ParseOptions sets.
SetupHeaders(options) ==
    [header_size         |-> SizeofCowHeaderV3,
     op_size             |-> SizeofCowOperationV3,
     block_size          |-> options.block_size,
     sequence_data_count |-> 0,
     resume_point_count  |-> 0,
     resume_point_max    |-> kNumResumePoints,
     op_count            |-> 0,
     op_count_max        |-> options.op_count_max]

\* CowWriterV3::OpenForWrite with its writes and its sync succeeding (a failed
\* open leaves no session): the header placeholder at offset 0, an empty
\* resume-point list, the payload cursor at the payload region's start.
OpenForWrite(options) ==
    LET header == SetupHeaders(options)
    IN [header        |-> header,
        next_data_pos |-> GetDataOffset(header),
        resume_points |-> <<>>,
        file          |-> {Extent(0, header.header_size, "header", header)}]

\* ReadCowHeader: the header image at offset 0.
ReadCowHeader(f) == (CHOOSE e \in ReadExtent(f, 0, "header") : TRUE).val

\* CowParserV3, the resume-point table it reads: the list last written there.
ParserResumeTable(f, header) ==
    LET found == ReadExtent(f, GetResumeOffset(header), "resume")
    IN IF found = {} THEN <<>> ELSE (CHOOSE e \in found : TRUE).val

\* CowParserV3, the operation count recorded with `label` (none: the empty set).
FindResumeOp(table, label) ==
    {table[i].op_index : i \in {j \in 1 .. Len(table) : table[j].label = label}}

\* CowParserV3::Parse succeeds when the label is in the table and the records
\* up to its operation count are intact in the operation table.
ParseOk(f, header, label) ==
    LET found == FindResumeOp(ParserResumeTable(f, header), label)
    IN /\ found # {}
       /\ \A n \in found : \A i \in 0 .. n - 1 :
              ReadExtent(f, GetOpOffset(i, header), "op") # {}

\* CowParserV3::Translate: the records committed up to the label.
ParsedOps(f, header, label) ==
    LET n == CHOOSE n \in FindResumeOp(ParserResumeTable(f, header), label) : TRUE
    IN [i \in 1 .. n |->
          (CHOOSE e \in ReadExtent(f, GetOpOffset(i - 1, header), "op") : TRUE).val]

\* CowParserV3::resume_points: the list as it was at the label.
ParsedResumePoints(f, header, label) ==
    SelectSeq(ParserResumeTable(f, header), LAMBDA rp : rp.label <= label)

\* The payload cursor of a resumed session: the payload region's start plus the
\* payload length of every recovered record.
ResumedDataPos(header, ops) ==
    GetDataOffset(header) + SumSeq([i \in 1 .. Len(ops) |-> ops[i].data_length])

\* CowWriterV3::OpenForAppend on file f, the parse having succeeded.
OpenForAppend(f, label) ==
    LET header == ReadCowHeader(f)
        ops == ParsedOps(f, header, label)
    IN [header        |-> [header EXCEPT !.op_count = Len(ops)],
        next_data_pos |-> ResumedDataPos(header, ops),
        resume_points |-> ParsedResumePoints(f, header, label),
        file          |-> f]

\* -------------------------------------------------------------------- state

VARIABLES
    header_,          \* CowHeaderV3 header_
    next_data_pos_,   \* uint64_t next_data_pos_
    resume_points_,   \* the vector behind resume_points_
    options_,         \* CowOptions options_: estimating, compression, op_count_max, block_size
    file,             \* the file behind fd_
    writes,           \* the positioned writes made since the session was opened
    ret,              \* the last call: its name, its argument, how it went
    ncalls,           \* calls made so far
    faults,           \* calls that met an I/O failure so far
    phase,            \* "session", or the stage of an estimate-then-write replay
    calls,            \* replay: the calls made while estimating
    pending,          \* replay: the calls still to be repeated on the real session
    estimate          \* replay: what the estimating session ended with

vars == <<header_, next_data_pos_, resume_points_, options_, file, writes, ret,
          ncalls, faults, phase, calls, pending, estimate>>

session_vars == <<header_, next_data_pos_, resume_points_, file, writes>>
replay_vars == <<phase, calls, pending, estimate>>

\* CowWriterBase::IsEstimating
IsEstimating == options_.estimating

Options ==
    [estimating : BOOLEAN, compression : {"none", "gz"},
     op_count_max : {0, MaxOpCountMax}, block_size : {BlockSize}]

NoCall ==
    [call |-> "open", ok |-> TRUE, why |-> "", nio |-> 0, arg |-> 0, evicted |-> 0]
NoEstimate == [size |-> 0, op_count |-> 0, op_count_max |-> 0]

\* The writer state the operators above work on, with the io input of the call.
Writer(io) ==
    [header        |-> header_,
     next_data_pos |-> next_data_pos_,
     resume_points |-> resume_points_,
     file          |-> file,
     writes        |-> writes,
     estimating    |-> IsEstimating,
     compression   |-> options_.compression,
     compressor    |-> options_.compression # "none",
     io            |-> io,
     nio           |-> 0,
     ok            |-> TRUE,
     why           |-> "",
     evicted       |-> 0]

\* The members after a call that left writer state s, and the call's record.
Returned(s, call, arg) ==
    /\ header_' = s.header
    /\ next_data_pos_' = s.next_data_pos
    /\ resume_points_' = s.resume_points
    /\ file' = s.file
    /\ writes' = s.writes
    /\ ret' = [call |-> call, ok |-> s.ok, why |-> s.why, nio |-> s.nio,
               arg |-> arg, evicted |-> s.evicted]
    /\ UNCHANGED options_

\* A session opened by `opened` (OpenForWrite or OpenForAppend) under `options`.
Opened(opened, options) ==
    /\ header_ = opened.header
    /\ next_data_pos_ = opened.next_data_pos
    /\ resume_points_ = opened.resume_points
    /\ file = opened.file
    /\ writes = {}
    /\ options_ = options

Init ==
    /\ \E options \in Options : Opened(OpenForWrite(options), options)
    /\ ret = NoCall
    /\ ncalls = 0
    /\ faults = 0
    /\ phase = "session"
    /\ calls = <<>>
    /\ pending = <<>>
    /\ estimate = NoEstimate

\* -------------------------------------------------------------------- calls

\* The inputs of the calls explored.
NewBlocks == {1}
OldBlocks == {2}
Offsets == {1}
Extras == {0, 1}
\* Labels: one more than the resume-point table holds.
Labels == 1 .. kNumResumePoints + 1
\* Requests of one block and of MaxBlocks blocks.
NumBlocks == {1, MaxBlocks}
\* Buffers of whole blocks, compressible and incompressible blocks alternating.
Alternating(n, first, second) ==
    [i \in 1 .. n |-> IF i % 2 = 1 THEN first ELSE second]
Datas ==
    {Alternating(1, "noise", "zeros"), Alternating(MaxBlocks, "zeros", "noise")}

Call(call, new_block, old_block, offset, n, data, extra) ==
    [call |-> call, new_block |-> new_block, old_block |-> old_block,
     offset |-> offset, n |-> n, data |-> data, extra |-> extra]

CopyCalls ==
    {Call("EmitCopy", nb, ob, 0, n, <<>>, 0) :
        nb \in NewBlocks, ob \in OldBlocks, n \in NumBlocks}
RawCalls ==
    {Call("EmitRawBlocks", nb, 0, 0, Len(d), d, x) :
        nb \in NewBlocks, d \in Datas, x \in Extras}
XorCalls ==
    {Call("EmitXorBlocks", nb, ob, off, Len(d), d, x) :
        nb \in NewBlocks, ob \in OldBlocks, off \in Offsets, d \in Datas, x \in Extras}
ZeroCalls ==
    {Call("EmitZeroBlocks", nb, 0, 0, n, <<>>, 0) : nb \in NewBlocks, n \in NumBlocks}
LabelCalls == {Call("EmitLabel", 0, 0, 0, l, <<>>, 0) : l \in Labels}
SequenceCalls == {Call("EmitSequenceData", 0, 0, 0, n, <<>>, 0) : n \in {0, MaxSeq}}
FinalizeCalls == {Call("Finalize", 0, 0, 0, 0, <<>>, 0)}

OpCallNames == {"EmitCopy", "EmitRawBlocks", "EmitXorBlocks", "EmitZeroBlocks"}
EmitCallNames == OpCallNames \cup {"EmitLabel", "EmitSequenceData"}

\* The writer state call c leaves when it is made on writer state s.
CallOn(c, s) ==
    CASE c.call = "EmitCopy" -> EmitCopy(s, c.new_block, c.old_block, c.n)
      [] c.call = "EmitRawBlocks" -> EmitRawBlocks(s, c.new_block, c.data, c.extra)
      [] c.call = "EmitXorBlocks" ->
             EmitXorBlocks(s, c.new_block, c.data, c.extra, c.old_block, c.offset)
      [] c.call = "EmitZeroBlocks" -> EmitZeroBlocks(s, c.new_block, c.n)
      [] c.call = "EmitLabel" -> EmitLabel(s, c.n)
      [] c.call = "EmitSequenceData" -> EmitSequenceData(s, c.n)
      [] OTHER -> Finalize(s)

\* The writer state call c leaves, made on the current session under io input io.
CallResult(c, io) == CallOn(c, Writer(io))

\* Call c is made: the members change as the call leaves them. ret.arg is the
\* number of records the request holds, the label, or num_ops.
Do(c, io) == Returned(CallResult(c, io), c.call, c.n)

\* One call on the session; an io input that names an I/O call is one the call
\* gets to.
Step(c, io) ==
    /\ ncalls < MaxCalls
    /\ io # NoFail => faults < MaxFaults /\ CallResult(c, io).why = "io"
    /\ Do(c, io)
    /\ ncalls' = ncalls + 1
    /\ faults' = IF io = NoFail THEN faults ELSE faults + 1
    /\ UNCHANGED replay_vars

CallEmitCopy ==
    /\ phase = "session"
    /\ \E c \in CopyCalls, io \in IoChoices : Step(c, io)
CallEmitRawBlocks ==
    /\ phase = "session"
    /\ \E c \in RawCalls, io \in IoChoices : Step(c, io)
CallEmitXorBlocks ==
    /\ phase = "session"
    /\ \E c \in XorCalls, io \in IoChoices : Step(c, io)
CallEmitZeroBlocks ==
    /\ phase = "session"
    /\ \E c \in ZeroCalls, io \in IoChoices : Step(c, io)
CallEmitLabel ==
    /\ phase = "session"
    /\ \E c \in LabelCalls, io \in IoChoices : Step(c, io)
CallEmitSequenceData ==
    /\ phase = "session"
    /\ \E c \in SequenceCalls, io \in IoChoices : Step(c, io)
CallFinalize ==
    /\ phase = "session"
    /\ \E c \in FinalizeCalls, io \in IoChoices : Step(c, io)

\* The session is closed and the file opened again at `label`:
\* Initialize(label), which succeeds when the parse does. Only a real session
\* leaves a file to resume.
Reopen ==
    /\ phase = "session"
    /\ ~IsEstimating
    /\ ncalls < MaxCalls
    /\ \E label \in Labels :
          /\ ParseOk(file, ReadCowHeader(file), label)
          /\ LET opened == OpenForAppend(file, label)
             IN /\ header_' = opened.header
                /\ next_data_pos_' = opened.next_data_pos
                /\ resume_points_' = opened.resume_points
                /\ file' = opened.file
                /\ writes' = {}
                /\ options_' = [options_ EXCEPT !.block_size = opened.header.block_size]
          /\ ret' = [NoCall EXCEPT !.call = "OpenForAppend", !.arg = label]
    /\ ncalls' = ncalls + 1
    /\ UNCHANGED <<faults, replay_vars>>

Next ==
    \/ CallEmitCopy
    \/ CallEmitRawBlocks
    \/ CallEmitXorBlocks
    \/ CallEmitZeroBlocks
    \/ CallEmitLabel
    \/ CallEmitSequenceData
    \/ CallFinalize
    \/ Reopen

Spec == Init /\ [][Next]_vars

\* ----------------------------------------------------- estimate, then write

\* The Emit* calls of a replay.
ReplayCalls ==
    CopyCalls \cup RawCalls \cup XorCalls \cup ZeroCalls \cup LabelCalls
        \cup SequenceCalls

\* A fresh session in estimating mode.
InitReplay ==
    /\ \E options \in {o \in Options : o.estimating} :
          Opened(OpenForWrite(options), options)
    /\ ret = NoCall
    /\ ncalls = 0
    /\ faults = 0
    /\ phase = "estimate"
    /\ calls = <<>>
    /\ pending = <<>>
    /\ estimate = NoEstimate

\* One more call on the estimating session.
EstimateCall ==
    /\ phase = "estimate"
    /\ Len(calls) < MaxCalls
    /\ \E c \in ReplayCalls :
          /\ Do(c, NoFail)
          /\ calls' = Append(calls, c)
    /\ UNCHANGED <<ncalls, faults, phase, pending, estimate>>

\* The estimate is read and a fresh real session is opened, its op_count_max
\* the one the estimating session ended with.
OpenReal ==
    /\ phase = "estimate"
    /\ LET options == [options_ EXCEPT !.estimating = FALSE,
                                        !.op_count_max = header_.op_count_max]
           opened == OpenForWrite(options)
       IN /\ header_' = opened.header
          /\ next_data_pos_' = opened.next_data_pos
          /\ resume_points_' = opened.resume_points
          /\ file' = opened.file
          /\ writes' = {}
          /\ options_' = options
    /\ estimate' = [size |-> GetCowSize(Writer(NoFail)),
                    op_count |-> header_.op_count,
                    op_count_max |-> header_.op_count_max]
    /\ ret' = NoCall
    /\ phase' = "write"
    /\ pending' = calls
    /\ UNCHANGED <<ncalls, faults, calls>>

\* The next call of the estimate is repeated on the real session.
RepeatCall ==
    /\ phase = "write"
    /\ pending # <<>>
    /\ Do(Head(pending), NoFail)
    /\ pending' = Tail(pending)
    /\ UNCHANGED <<ncalls, faults, phase, calls, estimate>>

NextReplay ==
    \/ EstimateCall
    \/ OpenReal
    \/ RepeatCall

SpecReplay == InitReplay /\ [][NextReplay]_vars

\* The replay is over: every call of the estimate was repeated.
Replayed == phase = "write" /\ pending = <<>>

\* C1: a call sequence replayed on an estimating session and then on a real
\* session whose op_count_max is the estimate's final op_count_max ends with the
\* same GetCowSize() and the same committed operation count, every call of the
\* real session having succeeded.
C1_EstimateMatchesWrite ==
    Replayed =>
        /\ GetCowSize(Writer(NoFail)) = estimate.size
        /\ header_.op_count = estimate.op_count
        /\ ret.ok

\* A replay of at least two calls with payload and a grown operation table is over.
C1_Witness ==
    /\ Replayed
    /\ Len(calls) >= 2
    /\ header_.op_count >= 2
    /\ next_data_pos_ > GetDataOffset(header_)
    /\ \E i \in 1 .. Len(calls) : calls[i].call = "EmitSequenceData" /\ calls[i].n > 0

\* ------------------------------------------------------------------- claims

LabelsOf(resume_points) == {resume_points[i].label : i \in 1 .. Len(resume_points)}

\* C2: in real mode an EmitCopy, EmitRawBlocks, EmitXorBlocks or EmitZeroBlocks
\* whose records would push the committed operation count past op_count_max
\* returns failure, and the committed operation count and the payload cursor are
\* what they were before the call.
C2_CapacityFailureKeepsCounters ==
    [][(/\ phase = "session"
        /\ ~IsEstimating
        /\ ret'.call \in OpCallNames
        /\ header_.op_count + ret'.arg > header_.op_count_max)
       => (/\ ~ret'.ok
           /\ header_'.op_count = header_.op_count
           /\ next_data_pos_' = next_data_pos_)]_vars

\* A compressed EmitRawBlocks failed on the capacity after its first block was
\* persisted.
C2_Witness ==
    /\ ~IsEstimating
    /\ options_.compression # "none"
    /\ ret.call = "EmitRawBlocks"
    /\ ~ret.ok
    /\ ret.why = "capacity"
    /\ ret.nio >= 2

\* C3: in every state of a session, fresh or resumed, estimating or real, the
\* committed operation count is at most op_count_max.
C3_OpCountWithinMax == header_.op_count <= header_.op_count_max

\* A resumed session whose operation table is full.
C3_Witness ==
    /\ ret.call = "OpenForAppend"
    /\ header_.op_count = header_.op_count_max
    /\ header_.op_count > 0

\* C4: in a real-mode session no byte an operation record was written to is a
\* byte payload was written to.
C4_TableAndPayloadDisjoint ==
    ~IsEstimating =>
        \A w1 \in writes, w2 \in writes :
            (w1[1] = "op" /\ w2[1] = "data") => ~Overlap(w1[2], w1[3], w2[2], w2[3])

\* C5: in a real-mode session no Emit* call changes the payload-region start
\* the header fields give, so it stays what it was at open.
C5_DataOffsetFixed ==
    [][(/\ phase = "session"
        /\ ~IsEstimating
        /\ ret'.call \in EmitCallNames)
       => GetDataOffset(header_') = GetDataOffset(header_)]_vars

\* C6: an Emit* call that returns failure leaves the committed operation count,
\* the payload cursor, the resume-point list and the header's count fields as
\* they were before the call.
C6_FailedCallKeepsState ==
    [][(/\ phase = "session"
        /\ ret'.call \in EmitCallNames
        /\ ~ret'.ok)
       => (/\ header_'.op_count = header_.op_count
           /\ next_data_pos_' = next_data_pos_
           /\ resume_points_' = resume_points_
           /\ header_'.resume_point_count = header_.resume_point_count
           /\ header_'.sequence_data_count = header_.sequence_data_count)]_vars

\* C7: in real mode with compression, when a write of a later block of an
\* EmitRawBlocks or EmitXorBlocks request fails after the first block was
\* persisted, the call returns failure and the committed operation count and the
\* payload cursor are what they were at entry.
C7_MidBatchFailureRollsBack ==
    [][(/\ phase = "session"
        /\ ~IsEstimating
        /\ options_.compression # "none"
        /\ ret'.call \in {"EmitRawBlocks", "EmitXorBlocks"}
        /\ ret'.why = "io"
        /\ ret'.nio >= 2)
       => (/\ ~ret'.ok
           /\ header_'.op_count = header_.op_count
           /\ next_data_pos_' = next_data_pos_)]_vars

\* The payload write of the second block of a compressed EmitXorBlocks failed.
C7_Witness ==
    /\ ~IsEstimating
    /\ options_.compression # "none"
    /\ ret.call = "EmitXorBlocks"
    /\ ~ret.ok
    /\ ret.why = "io"
    /\ ret.nio = 3

\* C8: EmitLabel(L) right after EmitLabel(L) leaves exactly one resume point
\* with label L and as many resume points as the first call left.
C8_RepeatedLabelReplaces ==
    [][(/\ phase = "session"
        /\ ret.call = "EmitLabel"
        /\ ret'.call = "EmitLabel"
        /\ ret'.arg = ret.arg)
       => (/\ Cardinality({i \in 1 .. Len(resume_points_') :
                              resume_points_'[i].label = ret'.arg}) = 1
           /\ Len(resume_points_') = Len(resume_points_))]_vars

\* Two calls were made, both EmitLabel of the largest label: only then is the
\* header's count 2 and that label's resume point the only one.
C8_Witness ==
    /\ ncalls = 2
    /\ faults = 0
    /\ ret.call = "EmitLabel"
    /\ ret.ok
    /\ header_.resume_point_count = 2
    /\ LabelsOf(resume_points_) = {kNumResumePoints + 1}
    /\ Len(resume_points_) = 1

\* C9: the resume-point list never holds more than resume_point_max entries,
\* and an EmitLabel of a label above all those of a full list drops the front
\* entry and appends the new one.
C9_OldestEvictedFirst ==
    /\ [](Len(resume_points_) <= header_.resume_point_max)
    /\ [][(/\ phase = "session"
           /\ ret'.call = "EmitLabel"
           /\ Len(resume_points_) = header_.resume_point_max
           /\ \A l \in LabelsOf(resume_points_) : l < ret'.arg)
          => resume_points_' =
                Append(Tail(resume_points_),
                       [label |-> ret'.arg, op_index |-> header_.op_count])]_vars

\* An EmitLabel erased the front of a full list.
C9_Witness ==
    /\ ret.call = "EmitLabel"
    /\ ret.ok
    /\ ret.evicted = 1
    /\ Len(resume_points_) = header_.resume_point_max
    /\ resume_points_[Len(resume_points_)].label = ret.arg

\* C10: the resume-point list has strictly increasing labels and non-decreasing
\* operation counts, read in list order.
C10_ResumePointsOrdered ==
    \A i \in 1 .. Len(resume_points_) - 1 :
        /\ resume_points_[i].label < resume_points_[i + 1].label
        /\ resume_points_[i].op_index <= resume_points_[i + 1].op_index

\* Two resume points with operations committed between them.
C10_Witness ==
    /\ Len(resume_points_) = 2
    /\ resume_points_[1].op_index < resume_points_[2].op_index

\* ------------------------------------------------------------ resume, replay

\* The state is the one a successful EmitLabel of a real-mode session left.
LabelEmitted ==
    /\ phase = "session"
    /\ ~IsEstimating
    /\ ret.call = "EmitLabel"
    /\ ret.ok

\* The payload lengths of a sequence of records.
DataLengths(ops) == [i \in 1 .. Len(ops) |-> ops[i].data_length]

\* C11: after a real-mode session committed operations and EmitLabel(L)
\* succeeded, the file reopens at L, and the resumed session's committed
\* operation count is the count recorded with L, its resume-point list the list
\* as it was at L, and its payload cursor the payload region's start plus the
\* payload lengths of the records committed up to L.
C11_ResumeAtLabel ==
    (LabelEmitted /\ header_.op_count > 0) =>
        /\ ParseOk(file, ReadCowHeader(file), ret.arg)
        /\ LET opened == OpenForAppend(file, ret.arg)
           IN /\ opened.header.op_count = header_.op_count
              /\ opened.resume_points = resume_points_
              /\ opened.next_data_pos =
                    GetDataOffset(header_)
                        + SumSeq(DataLengths(ParsedOps(file, header_, ret.arg)))

\* C12: after any sequence of Emit* calls of a real-mode session that ends in
\* a successful EmitLabel(L), the payload cursor of the session resumed at L is
\* the GetCowSize() the writing session had when it emitted L.
C12_ResumedCursorExact ==
    (LabelEmitted /\ ParseOk(file, ReadCowHeader(file), ret.arg)) =>
        OpenForAppend(file, ret.arg).next_data_pos = GetCowSize(Writer(NoFail))

\* ------------------------------------------------------- writes to the file

\* The requests that write operation records.
OpCalls == CopyCalls \cup RawCalls \cup XorCalls \cup ZeroCalls

\* The session is one on which a further call is made.
CallPending == phase = "session" /\ ncalls < MaxCalls

\* Call c made on the current session under io input io, its writes logged apart
\* from those the session made before.
CallApart(c, io) == CallOn(c, [Writer(io) EXCEPT !.writes = {}])

\* C13: within one real-mode session no operation-table slot and no payload
\* byte is written twice: whatever calls came before, failed ones included, the
\* record writes and payload writes of an EmitCopy, EmitRawBlocks, EmitXorBlocks
\* or EmitZeroBlocks touch no byte that a record write, respectively a payload
\* write, of the session touched before.
C13_NeverRewritten ==
    (CallPending /\ ~IsEstimating) =>
        \A c \in OpCalls, io \in IoChoices :
            \A w \in CallApart(c, io).writes, v \in writes :
                (w[1] \in {"op", "data"} /\ v[1] = w[1])
                    => ~Overlap(w[2], w[3], v[2], v[3])

\* C14: in estimating mode no Emit* call changes a byte of the file.
C14_EstimatingWritesNothing ==
    [][(/\ phase = "session"
        /\ IsEstimating
        /\ ret'.call \in EmitCallNames)
       => file' = file]_vars

\* ------------------------------------------------------- records of a request

\* The records the writes of r put at byte offset off.
WrittenAt(r, off) == {w[4] : w \in {x \in r.writes : x[1] = "op" /\ x[2] = off}}

\* The record writes and the payload writes of r.
OpsWritten(r) == {w \in r.writes : w[1] = "op"}
DataWritten(r) == {w \in r.writes : w[1] = "data"}

\* The table offset of the i-th record (from 0) appended to the current session.
AppendOffset(i) == GetOpOffset(header_.op_count + i, header_)

\* The payload length C15 gives a block of the current session.
ExpectedLength(kind) ==
    IF /\ options_.compression # "none"
       /\ CompressedSize(kind, header_.block_size) < header_.block_size
    THEN CompressedSize(kind, header_.block_size)
    ELSE header_.block_size

\* C15: a successful real-mode EmitRawBlocks of k whole blocks writes exactly k
\* records, at the k table slots after the committed ones, with destinations
\* start .. start + k - 1 in that order; each record's payload length is the
\* compressed length when compression is on and the compressed block is
\* smaller than block_size, and block_size otherwise; the payload cursor
\* advances by the sum of the k payload lengths.
C15_RawBlocksRecords ==
    (CallPending /\ ~IsEstimating) =>
        \A c \in RawCalls :
            \A r \in {CallApart(c, NoFail)}, k \in {Len(c.data)} : (c.extra = 0 /\ r.ok) =>
                /\ Cardinality(OpsWritten(r)) = k
                /\ \A i \in 0 .. k - 1 :
                      LET recs == WrittenAt(r, AppendOffset(i))
                      IN /\ Cardinality(recs) = 1
                         /\ \A op \in recs :
                               /\ op.type = "replace"
                               /\ op.new_block = c.new_block + i
                               /\ op.data_length = ExpectedLength(c.data[i + 1])
                /\ r.header.op_count = header_.op_count + k
                /\ r.next_data_pos =
                      next_data_pos_
                          + SumSeq([i \in 1 .. k |-> ExpectedLength(c.data[i])])

\* A compressed EmitRawBlocks of MaxBlocks blocks, some stored compressed and
\* some at full length, was the first call and succeeded.
C15_Witness ==
    /\ ~IsEstimating
    /\ options_.compression # "none"
    /\ ncalls = 1
    /\ ret.call = "EmitRawBlocks"
    /\ ret.ok
    /\ header_.op_count = MaxBlocks
    /\ next_data_pos_ > GetDataOffset(header_) + MaxBlocks
    /\ next_data_pos_ < GetDataOffset(header_) + MaxBlocks * BlockSize

\* C16: a successful real-mode EmitCopy(D, S, N) or EmitZeroBlocks(D, N) writes
\* exactly N records, at the N table slots after the committed ones, with
\* destinations D .. D + N - 1 in that order, copy records with sources
\* S .. S + N - 1 and zero records with none, all with payload length 0; the
\* committed operation count grows by N, no payload is written and the payload
\* cursor stays.
C16_CopyAndZeroRecords ==
    (CallPending /\ ~IsEstimating) =>
        \A c \in CopyCalls \cup ZeroCalls :
            \A r \in {CallApart(c, NoFail)} : r.ok =>
                /\ Cardinality(OpsWritten(r)) = c.n
                /\ \A i \in 0 .. c.n - 1 :
                      WrittenAt(r, AppendOffset(i)) =
                        {IF c.call = "EmitCopy"
                         THEN CowOperation("copy", c.new_block + i, c.old_block + i, 0)
                         ELSE CowOperation("zero", c.new_block + i, 0, 0)}
                /\ DataWritten(r) = {}
                /\ r.header.op_count = header_.op_count + c.n
                /\ r.next_data_pos = next_data_pos_

\* An EmitCopy of MaxBlocks blocks succeeded on a real-mode session and filled
\* its operation table.
C16_Witness ==
    /\ ~IsEstimating
    /\ ret.call = "EmitCopy"
    /\ ret.ok
    /\ ret.arg = MaxBlocks
    /\ header_.op_count = MaxBlocks
    /\ next_data_pos_ = GetDataOffset(header_)

\* ------------------------------------------------------------------- labels

\* The resume-point table as it stands in the file: the array last written at
\* the table's offset.
PersistedResumeTable ==
    LET found == {e \in file : e.kind = "resume"}
    IN IF found = {} THEN <<>> ELSE (CHOOSE e \in found : TRUE).val

\* C17: after every successful EmitLabel the header's resume_point_count is the
\* number of resume points in the list, which is the number of entries the call
\* wrote to the resume-point table.
C17_CountIsLiveEntries ==
    (phase = "session" /\ ret.call = "EmitLabel" /\ ret.ok) =>
        /\ Len(PersistedResumeTable) = Len(resume_points_)
        /\ header_.resume_point_count = Len(resume_points_)

\* The resume-point table writes and the header writes of r.
TableWritten(r) == {w \in r.writes : w[1] = "resume"}
HeaderWritten(r) == {w \in r.writes : w[1] = "header"}

\* The I/O calls of an EmitLabel that runs to its end: the table write, the
\* header write, the sync.
LabelIoCalls == 3

RecordAt(r, i) == CHOOSE op \in WrittenAt(r, AppendOffset(i)) : TRUE

\* The payload bytes r wrote for its first n records.
RECURSIVE PayloadBefore(_, _)
PayloadBefore(r, n) ==
    IF n = 0 THEN 0 ELSE PayloadBefore(r, n - 1) + RecordAt(r, n - 1).data_length

\* C19: in real mode every replace record a successful EmitRawBlocks commits,
\* on the uncompressed and on the compressed path, carries as source the byte
\* offset its payload was written at; the payload ranges
\* [source, source + data_length) of the request's records follow one another
\* from the payload cursor in record order and share no byte.
C19_SourceIsPayloadOffset ==
    (CallPending /\ ~IsEstimating) =>
        \A c \in RawCalls :
            \A r \in {CallApart(c, NoFail)} : r.ok =>
                /\ \A i \in 0 .. Len(c.data) - 1 :
                      \A op \in {RecordAt(r, i)} :
                         /\ op.type = "replace"
                         /\ op.source = next_data_pos_ + PayloadBefore(r, i)
                         /\ \E w \in DataWritten(r) :
                               /\ w[2] <= op.source
                               /\ op.source + op.data_length <= w[2] + w[3]
                               /\ options_.compression # "none" =>
                                     (w[2] = op.source /\ w[3] = op.data_length)
                /\ \A i, j \in 0 .. Len(c.data) - 1 :
                      i < j => ~Overlap(RecordAt(r, i).source, RecordAt(r, i).data_length,
                                        RecordAt(r, j).source, RecordAt(r, j).data_length)

\* An uncompressed EmitRawBlocks of MaxBlocks blocks followed by bytes short of
\* a block was the first call and succeeded.
C19_Witness ==
    /\ ~IsEstimating
    /\ options_.compression = "none"
    /\ ncalls = 1
    /\ ret.call = "EmitRawBlocks"
    /\ ret.ok
    /\ header_.op_count = MaxBlocks
    /\ next_data_pos_ > GetDataOffset(header_) + MaxBlocks * BlockSize

\* C20: after every successful EmitLabel(L) of a real-mode session, the header
\* image at offset 0 of the file has the operation count that the persisted
\* resume-point table records with L, and no resume point of the persisted
\* table records a larger one.
C20_PersistedStateConsistent ==
    LabelEmitted =>
        \A h \in {ReadCowHeader(file)}, table \in {PersistedResumeTable} :
            /\ \E i \in 1 .. Len(table) : table[i].label = ret.arg
            /\ \A i \in 1 .. Len(table) :
                  /\ table[i].label = ret.arg => table[i].op_index = h.op_count
                  /\ table[i].op_index <= h.op_count

\* A label was emitted after operations were committed behind an earlier label:
\* the persisted table holds two resume points with different counts.
C20_Witness ==
    /\ LabelEmitted
    /\ Len(PersistedResumeTable) = 2
    /\ PersistedResumeTable[1].op_index < PersistedResumeTable[2].op_index
    /\ ReadCowHeader(file).op_count = header_.op_count
====
